---- MODULE Spec2Model ----
(***************************************************************************)
(* Slot availability and booking core of the turf booking backend: the     *)
(* weekly slot template of a turf (models/Turf), the Booking ledger        *)
(* (models/Booking), the request handlers that reserve, cancel and check   *)
(* in (createBooking, cancelBooking, checkInBooking; the owner's bookSlot  *)
(* and cancelSlotBooking), the payment handlers (paymentController) and    *)
(* the periodic status sweep (server.js).                                  *)
(*                                                                         *)
(* Every request handler is split at its awaits on the data store: one     *)
(* action per read or write, so that concurrent requests interleave exactly *)
(* where the event loop lets them.  A document loaded by a handler is a    *)
(* private copy (loc); save() writes back only the paths the handler       *)
(* assigned.                                                               *)
(***************************************************************************)
EXTENDS Integers, Sequences, FiniteSets, TLC

(***************************************************************************)
(* Bounds of the model.                                                    *)
(***************************************************************************)
NumProcs == 2        \* concurrent request handlers
MaxBookings == 3     \* rows the ledger may hold
MaxBulk == 2         \* slots in one createBooking request
MaxDate == 8         \* calendar dates 1..MaxDate (day 0 is a Sunday)
MaxFaults == 1       \* data-store write failures injected in a run
MaxOrders == 2       \* payment orders the provider issues
MaxPayments == 1     \* payment ids per order
MaxCallbacks == 3    \* verify calls and webhooks delivered in a run

(***************************************************************************)
(* Program constants.                                                      *)
(***************************************************************************)
DaysPerWeek == 7     \* the seven day names indexed by Date.getDay()
CancelLeadHours == 2 \* canBeCancelled: hoursDiff >= 2
Null == 0            \* null / undefined reference or date

MinutesPerHour == 60
MinutesPerDay == 24 * MinutesPerHour

Procs == 1..NumProcs

(***************************************************************************)
(* Wall-clock strings "HH:MM", optionally followed by AM or PM.            *)
(***************************************************************************)
Time(h, m, ap) == [hh |-> h, mm |-> m, ap |-> ap]

\* Turf.parseTimeToMinutes: strip the suffix, split at ':', add 12 h for PM
\* (except 12 PM), subtract 12 h for 12 AM.
parseTimeToMinutes(t) ==
  LET total == t.hh * MinutesPerHour + t.mm
  IN  IF t.ap = "PM" /\ t.hh # 12 THEN total + 12 * MinutesPerHour
      ELSE IF t.ap = "AM" /\ t.hh = 12 THEN total - 12 * MinutesPerHour
      ELSE total

\* startTime.split(':') followed by parseInt on both parts and setHours: the
\* suffix is dropped by parseInt, never interpreted.
splitHoursMinutes(t) == t.hh * MinutesPerHour + t.mm

(***************************************************************************)
(* Calendar.  A date d is the d-th local day; instants are minutes since   *)
(* midnight of day 0.                                                      *)
(***************************************************************************)
Dates == {d \in 1..MaxDate : d % DaysPerWeek \in {1, 2}}
getDay(d) == d % DaysPerWeek
dateOf(instant) == instant \div MinutesPerDay
minutesOfDay(instant) == instant % MinutesPerDay
startInstant(d, t) == d * MinutesPerDay + splitHoursMinutes(t)

(***************************************************************************)
(* The turf's weekly template: monday is open with one slot, tuesday has   *)
(* the same slot and is closed, wednesday is open with the slot over noon, *)
(* its times written with a suffix.  Slots are addressed as                *)
(* <<weekday, index>>.                                                     *)
(***************************************************************************)
BasePrice == 1200
SlotDefs(w) ==
  IF w \in {1, 2}
  THEN << [startTime |-> Time(10, 0, ""), endTime |-> Time(11, 0, ""), price |-> 800] >>
  ELSE IF w = 3
  THEN << [startTime |-> Time(12, 0, "PM"), endTime |-> Time(1, 0, "PM"), price |-> 800] >>
  ELSE << >>
isOpen(w) == w \in {1, 3}
SlotKeys == {k \in (0..(DaysPerWeek - 1)) \X {1} : k[2] <= Len(SlotDefs(k[1]))}
FreeBinding == [isBooked |-> FALSE, bookedBy |-> Null, bookingDate |-> Null]

\* daySlots.slots.find(s => s.startTime === startTime && s.endTime === endTime):
\* the index of the first match, Null when there is none.
findSlot(w, startTime, endTime) ==
  LET hits == {i \in 1..Len(SlotDefs(w)) :
                 SlotDefs(w)[i].startTime = startTime /\ SlotDefs(w)[i].endTime = endTime}
  IN  IF hits = {} THEN Null ELSE CHOOSE i \in hits : \A j \in hits : i <= j

(***************************************************************************)
(* Turf instance methods, on a turf document t: the bindings of its slots. *)
(***************************************************************************)
\* Turf.isSlotAvailable(date, dayOfWeek, startTime, endTime)
isSlotAvailable(t, date, w, startTime, endTime) ==
  IF ~isOpen(w) THEN FALSE
  ELSE LET i == findSlot(w, startTime, endTime)
       IN  IF i = Null THEN FALSE
           ELSE LET slot == t[<<w, i>>]
                IN  \/ ~slot.isBooked
                    \/ (slot.bookingDate # Null /\ slot.bookingDate # date)

\* A bookSlot under which a slot once flagged stays taken on every date.
bookSlotPerpetual(t, date, w, startTime, endTime, userId) ==
  IF ~isOpen(w) THEN [err |-> "Turf is closed on this day", turf |-> t]
  ELSE LET i == findSlot(w, startTime, endTime)
       IN  IF i = Null THEN [err |-> "Slot not found", turf |-> t]
           ELSE IF t[<<w, i>>].isBooked
                THEN [err |-> "Slot is already booked for this date", turf |-> t]
                ELSE [err |-> "",
                      turf |-> [t EXCEPT ![<<w, i>>] =
                                  [isBooked |-> TRUE, bookedBy |-> userId,
                                   bookingDate |-> date]]]

\* Turf.bookSlot(date, dayOfWeek, startTime, endTime, userId): the error it
\* throws ("" when it returns) and the document afterwards.
bookSlot(t, date, w, startTime, endTime, userId) ==
  IF ~isOpen(w) THEN [err |-> "Turf is closed on this day", turf |-> t]
  ELSE LET i == findSlot(w, startTime, endTime)
       IN  IF i = Null THEN [err |-> "Slot not found", turf |-> t]
           ELSE LET slot == t[<<w, i>>]
                IN  IF slot.isBooked /\ slot.bookingDate # Null /\ slot.bookingDate = date
                    THEN [err |-> "Slot is already booked for this date", turf |-> t]
                    ELSE [err |-> "",
                          turf |-> [t EXCEPT ![<<w, i>>] =
                                      [isBooked |-> TRUE, bookedBy |-> userId,
                                       bookingDate |-> date]]]

\* Turf.cancelSlotBooking(date, dayOfWeek, startTime, endTime)
cancelSlotBooking(t, date, w, startTime, endTime) ==
  LET i == findSlot(w, startTime, endTime)
  IN  IF i = Null THEN [err |-> "Slot not found", turf |-> t]
      ELSE LET slot == t[<<w, i>>]
           IN  IF ~slot.isBooked \/ slot.bookingDate = Null \/ slot.bookingDate # date
               THEN [err |-> "No booking found for this slot on this date", turf |-> t]
               ELSE [err |-> "", turf |-> [t EXCEPT ![<<w, i>>] = FreeBinding]]

\* Turf.getAvailableSlots(date), evaluated at instant `at`: the indices of
\* the slots it returns.
getAvailableSlots(t, date, at) ==
  LET w == getDay(date)
  IN  IF ~isOpen(w) THEN {}
      ELSE {i \in 1..Len(SlotDefs(w)) :
              LET slot == t[<<w, i>>]
                  isBookedForThisDate ==
                    slot.isBooked /\ slot.bookingDate # Null /\ slot.bookingDate = date
              IN  /\ ~isBookedForThisDate
                  /\ ~(date = dateOf(at)
                       /\ parseTimeToMinutes(SlotDefs(w)[i].startTime) <= minutesOfDay(at))}

\* checkSlotAvailability (GET /api/turfs/:id/slots/check), at instant `at`.
checkSlotAvailability(t, date, startTime, endTime, at) ==
  /\ isSlotAvailable(t, date, getDay(date), startTime, endTime)
  /\ ~(date = dateOf(at) /\ parseTimeToMinutes(startTime) <= minutesOfDay(at))

\* checkSlotAvailability as turfController.js defines it the second time:
\* the answer of turf.isSlotAvailable, with no look at the clock.
checkSlotAvailability2(t, date, startTime, endTime) ==
  isSlotAvailable(t, date, getDay(date), startTime, endTime)

\* document.save(): only the paths whose value the handler changed are sent
\* to the store; the other fields of the stored slot stay as they are.
saveSlot(stored, loaded, changed) ==
  [isBooked    |-> IF changed.isBooked # loaded.isBooked
                   THEN changed.isBooked ELSE stored.isBooked,
   bookedBy    |-> IF changed.bookedBy # loaded.bookedBy
                   THEN changed.bookedBy ELSE stored.bookedBy,
   bookingDate |-> IF changed.bookingDate # loaded.bookingDate
                   THEN changed.bookingDate ELSE stored.bookingDate]
saveTurf(stored, loaded, changed) ==
  [k \in SlotKeys |-> saveSlot(stored[k], loaded[k], changed[k])]

(***************************************************************************)
(* State.                                                                  *)
(***************************************************************************)
VARIABLES
  now,        \* wall clock: minutes since midnight of day 0
  turfSlots,  \* stored Turf document: binding of every template slot
  bookings,   \* stored Booking collection, in insertion order; _id = index
  pc,         \* per handler: where it stands between two awaits
  req,        \* per handler: the request it serves
  loc,        \* per handler: the documents it holds in memory
  resp,       \* the response sent in the step just taken, if any
  sweep,      \* the periodic sweep: its position, its `now`, its candidates
  orders,     \* orders the payment provider has issued: order id -> booking id
  callbacks,  \* payment callbacks (verify calls and webhooks) still to come, by kind
  mails,      \* notifications handed to the mail service
  acked,      \* ids of the bookings a 2xx reservation response has returned
  faults,     \* store write failures still to be injected
  owner       \* the User document of the turf's owner: approval and activity

vars == <<now, turfSlots, bookings, pc, req, loc, resp, sweep, orders, callbacks, mails,
          acked, faults, owner>>

Customer == 1   \* req.user.id of the logged-in customer

\* The instants the clock is observed at on the first monday: two hours
\* before the first slot starts (the initial instant), one hour before,
\* inside the first slot and just after its end.
StartOfRun == MinutesPerDay + 8 * MinutesPerHour
Instants == {MinutesPerDay + m : m \in {9 * MinutesPerHour, 10 * MinutesPerHour + 5,
                                        11 * MinutesPerHour + 1}}

\* The instants a sweep may run at: those, and the very end of the first slot.
SweepInstants == Instants \cup {MinutesPerDay + 11 * MinutesPerHour}

\* crypto.createHmac('sha256', secret).update(body).digest('hex'): a function
\* of key and body under which different keys or bodies give different
\* digests.
hmac(secret, body) == [secret |-> secret, body |-> body]
\* The signature of a request or document that carries none.
NoSignature == hmac("", "")

\* `new Date('2000-01-01 ' + time)` in the pre('validate') hook, in minutes
\* of that day: the date parser reads the AM/PM suffix.
dateMinutes(t) ==
  IF t.ap = "PM" /\ t.hh # 12 THEN (t.hh + 12) * MinutesPerHour + t.mm
  ELSE IF t.ap = "AM" /\ t.hh = 12 THEN t.mm
  ELSE t.hh * MinutesPerHour + t.mm

\* A hook that fills duration and totalAmount in only where the caller
\* left the default.
preValidateDefaults(doc) ==
  LET minutes == dateMinutes(doc.endTime) - dateMinutes(doc.startTime)
  IN  [doc EXCEPT !.duration = IF @ = 0 THEN minutes ELSE @,
                  !.totalAmount = IF @ = 0 THEN (minutes * doc.pricePerHour) \div MinutesPerHour
                                  ELSE @]

\* BookingSchema.pre('validate'): duration and totalAmount are set from
\* startTime, endTime and pricePerHour (all three are required paths).
preValidate(doc) ==
  LET minutes == dateMinutes(doc.endTime) - dateMinutes(doc.startTime)
  IN  [doc EXCEPT !.duration = minutes,
                  !.totalAmount = (minutes * doc.pricePerHour) \div MinutesPerHour]

\* The validators of the paths the hook sets or reads.
validates(doc) == doc.pricePerHour >= 0 /\ doc.totalAmount >= 0

\* A Booking document as Booking.create persists it (schema defaults filled
\* in), with the paths paymentController assigns and queries on it
\* (razorpayOrderId, razorpayPaymentId, razorpaySignature, paidAt), which
\* are kept as the handlers write them.  email tells whether customerInfo
\* holds an address.
NewBooking(r, price, customerId, method, type, code) ==
  preValidate(
  [bookingDate |-> r.date, startTime |-> r.startTime, endTime |-> r.endTime,
   duration |-> 0, pricePerHour |-> price, totalAmount |-> 0, customerId |-> customerId,
   status |-> "confirmed", paymentStatus |-> "pending", paymentMethod |-> method,
   bookingType |-> type, bookingCode |-> code, reviewEmailSent |-> FALSE,
   email |-> customerId # Null,
   razorpayOrderId |-> Null, razorpayPaymentId |-> Null, razorpaySignature |-> NoSignature,
   paidAt |-> Null])

\* Booking pre('save') hook: five guarded samples of a 4-digit code, then an
\* unguarded one.  `samples` are the six values Math.random yields.
generateBookingCode(samples, existing) ==
  LET guarded == {i \in 1..5 : samples[i] \notin existing}
  IN  IF guarded = {} THEN samples[6]
      ELSE samples[CHOOSE i \in guarded : \A j \in guarded : i <= j]
FirstCode == 1000
\* Math.random draws: here the first sample is a code no booking holds.
RandomDraws(ledger) == {[i \in 1..6 |-> FirstCode + Len(ledger)]}
codesOf(ledger) == {ledger[i].bookingCode : i \in 1..Len(ledger)}

SlotRequest(d, w, i) ==
  [date |-> d, startTime |-> SlotDefs(w)[i].startTime, endTime |-> SlotDefs(w)[i].endTime]
\* Slot requests a client sends: every monday slot on every monday, and the
\* first monday slot asked for on a closed tuesday.
SlotRequests == {SlotRequest(d, 1, i) : d \in {e \in Dates : isOpen(getDay(e))},
                                        i \in 1..Len(SlotDefs(1))}
                  \cup {SlotRequest(d, 1, 1) : d \in {e \in Dates : ~isOpen(getDay(e))}}
BulkRequests == UNION {[1..n -> SlotRequests] : n \in 1..MaxBulk}

NoRequest == [op |-> "none", slots |-> << >>, bookingId |-> Null, code |-> Null,
              order |-> Null, payment |-> Null, signature |-> NoSignature]
NoResponse == [proc |-> 0, op |-> "none", status |-> 0, message |-> "", created |-> << >>,
               bookingId |-> Null, callback |-> NoRequest]
NoBooking == [bookingDate |-> Null, startTime |-> Time(0, 0, ""), endTime |-> Time(0, 0, ""),
              status |-> "none", paymentStatus |-> "none", paidAt |-> Null]
EmptyLoc == [turf |-> [k \in SlotKeys |-> FreeBinding], i |-> 0, created |-> << >>,
             booking |-> NoBooking, bookingId |-> Null]
IdleSweep == [pc |-> "idle", now |-> 0, queue |-> << >>]

\* The payment callbacks: the client's verify call and the provider's events.
CallbackKinds == {"verifyPayment", "payment.captured", "payment.failed", "order.paid"}

\* Callbacks still to come: `any` of them may be of every kind, the others
\* are of the kind that counts them.
Outbox(any, ofKind) ==
  [k \in CallbackKinds \cup {"any"} |->
     IF k = "any" THEN any ELSE IF k \in DOMAIN ofKind THEN ofKind[k] ELSE 0]

\* One of the callbacks still to come arrives, of kind `kind`.
receive(kind) ==
  \E k \in {kind, "any"} :
    /\ callbacks[k] > 0
    /\ callbacks' = [callbacks EXCEPT ![k] = @ - 1]

\* The owner as the admin approved them: User.adminApprovalStatus, isActive.
ApprovedOwner == [adminApprovalStatus |-> "approved", isActive |-> TRUE]

\* No request in flight, nothing paid, nothing mailed.
InitQuiet ==
  /\ owner = ApprovedOwner
  /\ pc = [p \in Procs |-> "idle"]
  /\ req = [p \in Procs |-> NoRequest]
  /\ loc = [p \in Procs |-> EmptyLoc]
  /\ resp = NoResponse
  /\ sweep = IdleSweep
  /\ orders = << >>
  /\ mails = [review |-> [i \in 1..MaxBookings |-> 0],
              confirmation |-> [i \in 1..MaxBookings |-> 0]]

\* Up to MaxCallbacks payment callbacks of any kind are to come.
InitIdle == InitQuiet /\ callbacks = Outbox(MaxCallbacks, << >>)

\* A turf with no booking yet.
InitStore ==
  /\ now = StartOfRun
  /\ turfSlots = [k \in SlotKeys |-> FreeBinding]
  /\ bookings = << >>
  /\ acked = {}
  /\ InitIdle

Init == InitStore /\ faults = 0

\* Rows that requests in flight may still insert.
pendingInserts ==
  LET n(p) == IF pc[p] \in {"cb_iter", "cb_bind"}
              THEN Len(req[p].slots) - Len(loc[p].created)
              ELSE IF pc[p] = "ob_create" THEN 1 ELSE 0
      sum[S \in SUBSET Procs] ==
        IF S = {} THEN 0 ELSE LET q == CHOOSE q \in S : TRUE IN n(q) + sum[S \ {q}]
  IN  sum[Procs]

\* A step that sends no response.
silent == resp' = NoResponse /\ UNCHANGED <<acked, owner>>

\* The handler sends its response and ends: what it held in memory is gone.
\* The response tells the rows the request inserted and the booking it
\* worked on.  answer does the same for a payment callback, and keeps the
\* callback with the response it got.
respond(p, op, status, message, created, bookingId) ==
  /\ pc' = [pc EXCEPT ![p] = "idle"]
  /\ req' = [req EXCEPT ![p] = NoRequest]
  /\ loc' = [loc EXCEPT ![p] = EmptyLoc]
  /\ resp' = [proc |-> p, op |-> op, status |-> status, message |-> message,
              created |-> created, bookingId |-> bookingId, callback |-> NoRequest]
  /\ acked' = IF op \in {"createBooking", "bookSlot"} /\ status \in {200, 201}
              THEN acked \cup {created[i] : i \in 1..Len(created)}
              ELSE acked
  /\ UNCHANGED owner

answer(p, callback, op, status, message, bookingId) ==
  /\ pc' = [pc EXCEPT ![p] = "idle"]
  /\ req' = [req EXCEPT ![p] = NoRequest]
  /\ loc' = [loc EXCEPT ![p] = EmptyLoc]
  /\ resp' = [proc |-> p, op |-> op, status |-> status, message |-> message,
              created |-> << >>, bookingId |-> bookingId, callback |-> callback]
  /\ UNCHANGED <<acked, owner>>

\* The next state of a handler that goes on to its next await.
goto(p, label, newLoc) ==
  /\ pc' = [pc EXCEPT ![p] = label]
  /\ loc' = [loc EXCEPT ![p] = newLoc]
  /\ silent
  /\ UNCHANGED req

\* A store write that may be rejected while injected failures remain.
WriteOutcomes == IF faults > 0 THEN {TRUE, FALSE} ELSE {TRUE}

(***************************************************************************)
(* createBooking (POST /api/bookings), customer.                           *)
(***************************************************************************)
\* Request validation and `await Turf.findById(turfId)`.
CreateBooking_Start(p) ==
  /\ pc[p] = "idle"
  /\ \E slots \in BulkRequests :
       /\ Len(bookings) + pendingInserts + Len(slots) <= MaxBookings
       /\ req' = [req EXCEPT ![p] = [NoRequest EXCEPT !.op = "createBooking", !.slots = slots]]
  /\ loc' = [loc EXCEPT ![p] = [EmptyLoc EXCEPT !.turf = turfSlots, !.i = 1]]
  /\ pc' = [pc EXCEPT ![p] = "cb_iter"]
  /\ silent
  /\ UNCHANGED <<now, turfSlots, bookings, sweep, orders, callbacks, mails, faults>>

\* One loop iteration up to `await Booking.create(...)`: the checks on the
\* turf held in memory, then the insert.
CreateBooking_Create(p) ==
  /\ pc[p] = "cb_iter"
  /\ LET s == req[p].slots[loc[p].i]
         sDay == getDay(s.date)
         slot == findSlot(sDay, s.startTime, s.endTime)
         reject(message) ==
           /\ respond(p, "createBooking", 400, message, loc[p].created, Null)
           /\ UNCHANGED bookings
     IN  IF ~isOpen(sDay) THEN reject("No slots available on day")
         ELSE IF slot = Null THEN reject("Selected slot is not available")
         ELSE IF s.date = dateOf(now) /\ parseTimeToMinutes(s.startTime) <= minutesOfDay(now)
         THEN reject("Cannot book slots that have already passed")
         ELSE IF ~isSlotAvailable(loc[p].turf, s.date, sDay, s.startTime, s.endTime)
         THEN reject("One or more selected slots are already booked")
         ELSE \E samples \in RandomDraws(bookings) :
                LET price == IF SlotDefs(sDay)[slot].price # 0
                             THEN SlotDefs(sDay)[slot].price ELSE BasePrice
                    code == generateBookingCode(samples, codesOf(bookings))
                IN  /\ bookings' = Append(bookings,
                          NewBooking(s, price, Customer, "online", "online", code))
                    /\ goto(p, "cb_bind",
                            [loc[p] EXCEPT !.created = Append(@, Len(bookings) + 1)])
  /\ UNCHANGED <<now, turfSlots, sweep, orders, callbacks, mails, faults>>

\* `await turf.bookSlot(...)` on the turf in memory, then `await turf.save()`,
\* then the next iteration or the 201 response.  A throw or a rejected save
\* goes to the error middleware.
CreateBooking_Bind(p) ==
  /\ pc[p] = "cb_bind"
  /\ LET s == req[p].slots[loc[p].i]
         id == loc[p].created[Len(loc[p].created)]
         r == bookSlot(loc[p].turf, s.date, getDay(s.date), s.startTime, s.endTime, id)
     IN  IF r.err # ""
         THEN /\ respond(p, "createBooking", 500, r.err, loc[p].created, Null)
              /\ UNCHANGED <<turfSlots, faults>>
         ELSE \E saved \in WriteOutcomes :
                IF ~saved
                THEN /\ respond(p, "createBooking", 500, "save failed", loc[p].created, Null)
                     /\ faults' = faults - 1
                     /\ UNCHANGED turfSlots
                ELSE /\ turfSlots' = saveTurf(turfSlots, loc[p].turf, r.turf)
                     /\ UNCHANGED faults
                     /\ IF loc[p].i < Len(req[p].slots)
                        THEN goto(p, "cb_iter", [loc[p] EXCEPT !.turf = r.turf, !.i = @ + 1])
                        ELSE respond(p, "createBooking", 201, "Booking created",
                                     loc[p].created, Null)
  /\ UNCHANGED <<now, bookings, sweep, orders, callbacks, mails>>

(***************************************************************************)
(* bookSlot (POST /api/turfs/:id/slots/book), the owner's walk-in booking. *)
(***************************************************************************)
\* Validation, the today-only rule, `await Turf.findById`, then the checks on
\* the turf in memory with the `today` taken on entry; Booking.create is
\* issued when they pass.
OwnerBookSlot_Start(p) ==
  /\ pc[p] = "idle"
  /\ \E s \in SlotRequests :
       LET w == getDay(s.date)
           request == [NoRequest EXCEPT !.op = "bookSlot", !.slots = <<s>>]
           reject(message) ==
             respond(p, "bookSlot", 400, message, << >>, Null)
       IN  /\ Len(bookings) + pendingInserts + 1 <= MaxBookings
           /\ IF s.date # dateOf(now)
              THEN reject("Offline bookings are allowed only for today")
              ELSE IF parseTimeToMinutes(s.startTime) <= minutesOfDay(now)
              THEN reject("Cannot book slots that have already passed")
              ELSE IF ~isSlotAvailable(turfSlots, s.date, w, s.startTime, s.endTime)
              THEN reject("Slot is not available for booking")
              ELSE /\ req' = [req EXCEPT ![p] = request]
                   /\ loc' = [loc EXCEPT ![p] = [EmptyLoc EXCEPT !.turf = turfSlots, !.i = 1]]
                   /\ pc' = [pc EXCEPT ![p] = "ob_create"]
                   /\ silent
  /\ UNCHANGED <<now, turfSlots, bookings, sweep, orders, callbacks, mails, faults>>

\* The second definition of bookSlot in turfController.js: validation,
\* `await Turf.findById`, the owner check and turf.isSlotAvailable, with no
\* rule about the day or the hour; Booking.create is issued when they pass.
OwnerBookSlot2_Start(p) ==
  /\ pc[p] = "idle"
  /\ \E s \in SlotRequests :
       LET w == getDay(s.date)
           request == [NoRequest EXCEPT !.op = "bookSlot", !.slots = <<s>>]
       IN  /\ Len(bookings) + pendingInserts + 1 <= MaxBookings
           /\ IF ~isSlotAvailable(turfSlots, s.date, w, s.startTime, s.endTime)
              THEN respond(p, "bookSlot", 400, "Slot is not available for booking",
                           << >>, Null)
              ELSE /\ req' = [req EXCEPT ![p] = request]
                   /\ loc' = [loc EXCEPT ![p] = [EmptyLoc EXCEPT !.turf = turfSlots, !.i = 1]]
                   /\ pc' = [pc EXCEPT ![p] = "ob_create"]
                   /\ silent
  /\ UNCHANGED <<now, turfSlots, bookings, sweep, orders, callbacks, mails, faults>>

\* `await Booking.create(...)`.
OwnerBookSlot_Create(p) ==
  /\ pc[p] = "ob_create"
  /\ LET s == req[p].slots[1]
         w == getDay(s.date)
         slot == findSlot(w, s.startTime, s.endTime)
         slotPrice == IF SlotDefs(w)[slot].price # 0 THEN SlotDefs(w)[slot].price
                      ELSE BasePrice
     IN  \E samples \in RandomDraws(bookings) :
           /\ bookings' = Append(bookings,
                NewBooking(s, slotPrice, Null, "cash", "offline",
                           generateBookingCode(samples, codesOf(bookings))))
           /\ goto(p, "ob_bind", [loc[p] EXCEPT !.created = <<Len(bookings) + 1>>])
  /\ UNCHANGED <<now, turfSlots, sweep, orders, callbacks, mails, faults>>

\* turf.bookSlot(...) on the turf in memory and `await turf.save()`; what is
\* thrown is caught and answered with 400.
OwnerBookSlot_Bind(p) ==
  /\ pc[p] = "ob_bind"
  /\ LET s == req[p].slots[1]
         r == bookSlot(loc[p].turf, s.date, getDay(s.date), s.startTime, s.endTime,
                       loc[p].created[1])
     IN  IF r.err # ""
         THEN /\ respond(p, "bookSlot", 400, r.err, loc[p].created, Null)
              /\ UNCHANGED <<turfSlots, faults>>
         ELSE \E saved \in WriteOutcomes :
                IF ~saved
                THEN /\ respond(p, "bookSlot", 400, "save failed", loc[p].created, Null)
                     /\ faults' = faults - 1
                     /\ UNCHANGED turfSlots
                ELSE /\ turfSlots' = saveTurf(turfSlots, loc[p].turf, r.turf)
                     /\ UNCHANGED faults
                     /\ respond(p, "bookSlot", 200, "Slot booked successfully",
                                loc[p].created, Null)
  /\ UNCHANGED <<now, bookings, sweep, orders, callbacks, mails>>

(***************************************************************************)
(* Booking instance methods.                                               *)
(***************************************************************************)
\* Booking.canBeCancelled(), evaluated at instant `at`.
canBeCancelled(b, at) ==
  IF b.status = "cancelled" \/ b.status = "completed" THEN FALSE
  ELSE startInstant(b.bookingDate, b.startTime) - at >= CancelLeadHours * MinutesPerHour

\* What a handler keeps of a Booking document it loaded.
loaded(id) == [bookingDate |-> bookings[id].bookingDate, startTime |-> bookings[id].startTime,
               endTime |-> bookings[id].endTime, status |-> bookings[id].status,
               paymentStatus |-> bookings[id].paymentStatus, paidAt |-> bookings[id].paidAt]

\* booking.save() after `booking.status = status`: the path is written only
\* when the assignment changed the document in memory.
saveStatus(ledger, id, was, status) ==
  IF was = status THEN ledger ELSE [ledger EXCEPT ![id].status = status]

(***************************************************************************)
(* cancelBooking (DELETE /api/bookings/:id), customer.                     *)
(***************************************************************************)
\* `await Booking.findById`, the ownership check, then Booking.cancelBooking
\* up to its save: canBeCancelled() or a throw.
CancelBooking_Start(p) ==
  /\ pc[p] = "idle"
  /\ \E id \in 1..(Len(bookings) + 1) :
       LET reject(status, message) == respond(p, "cancelBooking", status, message, << >>, id)
       IN  IF id > Len(bookings) THEN reject(404, "Booking not found")
           ELSE IF bookings[id].customerId # Customer
           THEN reject(403, "Not authorized to cancel this booking")
           ELSE IF ~canBeCancelled(bookings[id], now)
           THEN reject(500, "Booking cannot be cancelled")
           ELSE /\ req' = [req EXCEPT ![p] = [NoRequest EXCEPT !.op = "cancelBooking",
                                                               !.bookingId = id]]
                /\ loc' = [loc EXCEPT ![p] = [EmptyLoc EXCEPT !.booking = loaded(id),
                                                              !.bookingId = id]]
                /\ pc' = [pc EXCEPT ![p] = "cx_save"]
                /\ silent
  /\ UNCHANGED <<now, turfSlots, bookings, sweep, orders, callbacks, mails, faults>>

\* `return this.save()` of Booking.cancelBooking.
CancelBooking_Save(p) ==
  /\ pc[p] = "cx_save"
  /\ \E saved \in WriteOutcomes :
       IF ~saved
       THEN /\ respond(p, "cancelBooking", 500, "save failed", << >>, loc[p].bookingId)
            /\ faults' = faults - 1
            /\ UNCHANGED bookings
       ELSE /\ bookings' = saveStatus(bookings, loc[p].bookingId, loc[p].booking.status,
                                      "cancelled")
            /\ goto(p, "cx_turf", loc[p])
            /\ UNCHANGED faults
  /\ UNCHANGED <<now, turfSlots, sweep, orders, callbacks, mails>>

\* `await Turf.findById(booking.turfId)` and turf.cancelSlotBooking on the
\* turf just read; a throw goes to the error middleware.
CancelBooking_FindTurf(p) ==
  /\ pc[p] = "cx_turf"
  /\ LET b == loc[p].booking
         r == cancelSlotBooking(turfSlots, b.bookingDate, getDay(b.bookingDate),
                                b.startTime, b.endTime)
     IN  IF r.err # ""
         THEN respond(p, "cancelBooking", 500, r.err, << >>, loc[p].bookingId)
         ELSE goto(p, "cx_turfsave", [loc[p] EXCEPT !.turf = turfSlots])
  /\ UNCHANGED <<now, turfSlots, bookings, sweep, orders, callbacks, mails, faults>>

\* `await turf.save()` and the 200 response.
CancelBooking_SaveTurf(p) ==
  /\ pc[p] = "cx_turfsave"
  /\ LET b == loc[p].booking
         r == cancelSlotBooking(loc[p].turf, b.bookingDate, getDay(b.bookingDate),
                                b.startTime, b.endTime)
     IN  \E saved \in WriteOutcomes :
           IF ~saved
           THEN /\ respond(p, "cancelBooking", 500, "save failed", << >>, loc[p].bookingId)
                /\ faults' = faults - 1
                /\ UNCHANGED turfSlots
           ELSE /\ turfSlots' = saveTurf(turfSlots, loc[p].turf, r.turf)
                /\ respond(p, "cancelBooking", 200, "Booking cancelled", << >>,
                           loc[p].bookingId)
                /\ UNCHANGED faults
  /\ UNCHANGED <<now, bookings, sweep, orders, callbacks, mails>>

(***************************************************************************)
(* cancelSlotBooking (DELETE /api/turfs/:id/slots/cancel), owner.          *)
(***************************************************************************)
\* Booking.findOne({turfId, bookingDate, startTime, endTime,
\* status: {$ne: 'cancelled'}}): the first such row, Null when there is none.
findOneBySlot(ledger, s) ==
  LET hits == {i \in 1..Len(ledger) :
                 /\ ledger[i].bookingDate = s.date
                 /\ ledger[i].startTime = s.startTime
                 /\ ledger[i].endTime = s.endTime
                 /\ ledger[i].status # "cancelled"}
  IN  IF hits = {} THEN Null ELSE CHOOSE i \in hits : \A j \in hits : i <= j

\* Validation and `await Turf.findById`.
OwnerCancel_Start(p) ==
  /\ pc[p] = "idle"
  /\ \E s \in SlotRequests, id \in 0..(Len(bookings) + 1) :
       req' = [req EXCEPT ![p] = [NoRequest EXCEPT !.op = "cancelSlotBooking",
                                                   !.slots = <<s>>, !.bookingId = id]]
  /\ loc' = [loc EXCEPT ![p] = [EmptyLoc EXCEPT !.turf = turfSlots]]
  /\ pc' = [pc EXCEPT ![p] = "oc_find"]
  /\ silent
  /\ UNCHANGED <<now, turfSlots, bookings, sweep, orders, callbacks, mails, faults>>

\* The booking is looked up, by id when the request names one and by slot
\* otherwise, and Booking.cancelBooking runs up to its save.  With no booking
\* found the handler goes straight on to the turf.
OwnerCancel_FindBooking(p) ==
  /\ pc[p] = "oc_find"
  /\ LET s == req[p].slots[1]
         id == IF req[p].bookingId # Null THEN req[p].bookingId
               ELSE findOneBySlot(bookings, s)
     IN  IF id = Null \/ id > Len(bookings) THEN goto(p, "oc_turf", loc[p])
         ELSE IF ~canBeCancelled(bookings[id], now)
         THEN respond(p, "cancelSlotBooking", 400, "Booking cannot be cancelled", << >>, id)
         ELSE goto(p, "oc_save", [loc[p] EXCEPT !.booking = loaded(id), !.bookingId = id])
  /\ UNCHANGED <<now, turfSlots, bookings, sweep, orders, callbacks, mails, faults>>

\* `return this.save()` of Booking.cancelBooking.
OwnerCancel_Save(p) ==
  /\ pc[p] = "oc_save"
  /\ \E saved \in WriteOutcomes :
       IF ~saved
       THEN /\ respond(p, "cancelSlotBooking", 400, "save failed", << >>, loc[p].bookingId)
            /\ faults' = faults - 1
            /\ UNCHANGED bookings
       ELSE /\ bookings' = saveStatus(bookings, loc[p].bookingId, loc[p].booking.status,
                                      "cancelled")
            /\ goto(p, "oc_turf", loc[p])
            /\ UNCHANGED faults
  /\ UNCHANGED <<now, turfSlots, sweep, orders, callbacks, mails>>

\* turf.cancelSlotBooking on the turf read on entry, `await turf.save()` and
\* the 200 response; what is thrown is caught and answered with 400.
OwnerCancel_SaveTurf(p) ==
  /\ pc[p] = "oc_turf"
  /\ LET s == req[p].slots[1]
         r == cancelSlotBooking(loc[p].turf, s.date, getDay(s.date), s.startTime, s.endTime)
     IN  IF r.err # ""
         THEN /\ respond(p, "cancelSlotBooking", 400, r.err, << >>, loc[p].bookingId)
              /\ UNCHANGED <<turfSlots, faults>>
         ELSE \E saved \in WriteOutcomes :
                IF ~saved
                THEN /\ respond(p, "cancelSlotBooking", 400, "save failed", << >>,
                                loc[p].bookingId)
                     /\ faults' = faults - 1
                     /\ UNCHANGED turfSlots
                ELSE /\ turfSlots' = saveTurf(turfSlots, loc[p].turf, r.turf)
                     /\ respond(p, "cancelSlotBooking", 200, "Booking cancelled successfully",
                                << >>, loc[p].bookingId)
                     /\ UNCHANGED faults
  /\ UNCHANGED <<now, bookings, sweep, orders, callbacks, mails>>

(***************************************************************************)
(* checkInBooking (POST /api/bookings/checkin), owner.                     *)
(***************************************************************************)
\* Booking.findOne({ bookingCode }): the first row holding the code.
findOneByCode(ledger, code) ==
  LET hits == {i \in 1..Len(ledger) : ledger[i].bookingCode = code}
  IN  IF hits = {} THEN Null ELSE CHOOSE i \in hits : \A j \in hits : i <= j

\* The status checkInBooking assigns to the booking it found.
checkInStatus(was) == "in_progress"

\* `await Booking.findOne({ bookingCode })`, the cross-checks against the
\* optional date, and `booking.status = 'in_progress'`.
CheckIn_Start(p) ==
  /\ pc[p] = "idle"
  /\ \E code \in FirstCode..(FirstCode + Len(bookings)), date \in {Null} \cup Dates :
       LET id == findOneByCode(bookings, code)
           reject(status, message) == respond(p, "checkIn", status, message, << >>, id)
       IN  IF id = Null THEN reject(404, "Booking not found")
           ELSE IF date # Null /\ date # bookings[id].bookingDate
           THEN reject(400, "Booking is not for the selected date")
           ELSE /\ req' = [req EXCEPT ![p] = [NoRequest EXCEPT !.op = "checkIn",
                                                               !.code = code]]
                /\ loc' = [loc EXCEPT ![p] = [EmptyLoc EXCEPT !.booking = loaded(id),
                                                              !.bookingId = id]]
                /\ pc' = [pc EXCEPT ![p] = "ci_save"]
                /\ silent
  /\ UNCHANGED <<now, turfSlots, bookings, sweep, orders, callbacks, mails, faults>>

\* `await booking.save()` and the 200 response.
CheckIn_Save(p) ==
  /\ pc[p] = "ci_save"
  /\ \E saved \in WriteOutcomes :
       IF ~saved
       THEN /\ respond(p, "checkIn", 500, "save failed", << >>, loc[p].bookingId)
            /\ faults' = faults - 1
            /\ UNCHANGED bookings
       ELSE /\ bookings' = saveStatus(bookings, loc[p].bookingId, loc[p].booking.status,
                                      checkInStatus(loc[p].booking.status))
            /\ respond(p, "checkIn", 200, "Booking checked-in successfully", << >>,
                       loc[p].bookingId)
            /\ UNCHANGED faults
  /\ UNCHANGED <<now, turfSlots, sweep, orders, callbacks, mails>>

(***************************************************************************)
(* The periodic sweep (server.js, setInterval every five minutes).         *)
(***************************************************************************)
endInstant(d, t) == d * MinutesPerDay + splitHoursMinutes(t)

\* A sweep that starts bookings and never completes them.
sweepStatusStartOnly(b, at) ==
  LET start == startInstant(b.bookingDate, b.startTime)
      end == endInstant(b.bookingDate, b.endTime)
  IN  IF start <= at /\ end > at /\ b.status # "in_progress" THEN "in_progress"
      ELSE b.status

\* The status the sweep assigns to a candidate it loaded with status `was`,
\* at the sweep's `now`.
sweepStatus(b, at) ==
  LET start == startInstant(b.bookingDate, b.startTime)
      end == endInstant(b.bookingDate, b.endTime)
  IN  IF start <= at /\ end > at /\ b.status # "in_progress" THEN "in_progress"
      ELSE IF end < at /\ b.status # "completed" THEN "completed"
      ELSE b.status

\* `const now = new Date()` and
\* `await Booking.find({status: {$in: ['confirmed', 'in_progress']}})`.
Sweep_Start ==
  /\ sweep.pc = "idle"
  /\ LET ids == {i \in 1..Len(bookings) : bookings[i].status \in {"confirmed", "in_progress"}}
         order[S \in SUBSET (1..Len(bookings))] ==
           IF S = {} THEN << >>
           ELSE LET m == CHOOSE i \in S : \A j \in S : i <= j
                IN  <<[id |-> m, status |-> bookings[m].status,
                       reviewEmailSent |-> bookings[m].reviewEmailSent]>> \o order[S \ {m}]
     IN  /\ ids # {}
         /\ sweep' = [pc |-> "loop", now |-> now, queue |-> order[ids]]
  /\ silent
  /\ UNCHANGED <<now, turfSlots, bookings, pc, req, loc, orders, callbacks, mails, faults>>

\* One candidate: its status is assigned and saved when a transition is due.
\* A rejected save leaves the loop (the outer catch).
Sweep_Save ==
  /\ sweep.pc = "loop"
  /\ LET c == Head(sweep.queue)
         doc == [loaded(c.id) EXCEPT !.status = c.status]
         to == sweepStatus(doc, sweep.now)
         rest == IF Len(sweep.queue) = 1 THEN IdleSweep
                 ELSE [sweep EXCEPT !.queue = Tail(@)]
     IN  IF to = c.status
         THEN sweep' = rest /\ UNCHANGED <<bookings, faults>>
         ELSE \E saved \in WriteOutcomes :
                IF ~saved
                THEN sweep' = IdleSweep /\ faults' = faults - 1 /\ UNCHANGED bookings
                ELSE /\ bookings' = saveStatus(bookings, c.id, c.status, to)
                     /\ UNCHANGED faults
                     /\ sweep' = IF to = "completed" /\ ~c.reviewEmailSent
                                 THEN [sweep EXCEPT !.pc = "mail"]
                                 ELSE rest
  /\ silent
  /\ UNCHANGED <<now, turfSlots, pc, req, loc, orders, callbacks, mails>>

\* `await sendEmail(...)`, `b.reviewEmailSent = true` and `await b.save()`;
\* a failure of either is swallowed by the inner catch.
Sweep_Mail ==
  /\ sweep.pc = "mail"
  /\ LET c == Head(sweep.queue)
         rest == IF Len(sweep.queue) = 1 THEN IdleSweep
                 ELSE [sweep EXCEPT !.pc = "loop", !.queue = Tail(@)]
     IN  /\ sweep' = rest
         /\ \E sent \in BOOLEAN :
              IF sent
              THEN /\ mails' = [mails EXCEPT !.review[c.id] = @ + 1]
                   /\ bookings' = [bookings EXCEPT ![c.id].reviewEmailSent = TRUE]
              ELSE UNCHANGED <<mails, bookings>>
  /\ silent
  /\ UNCHANGED <<now, turfSlots, pc, req, loc, orders, callbacks, faults>>

(***************************************************************************)
(* Payments (paymentController).                                           *)
(***************************************************************************)
KeySecret == "RAZORPAY_KEY_SECRET"
WebhookSecret == "RAZORPAY_WEBHOOK_SECRET"
PaymentIds == 1..MaxPayments

\* A comparison that lets every signature pass.
verifySignatureIgnored(order, payment, signature) == FALSE

\* verifyPayment: expectedSignature !== razorpay_signature
verifySignatureMismatch(order, payment, signature) ==
  hmac(KeySecret, <<order, payment>>) # signature

\* handlePaymentWebhook: webhookSignature !== expectedSignature
webhookSignatureMismatch(body, signature) ==
  hmac(WebhookSecret, body) # signature

\* Booking.findOne({ razorpayOrderId }): the first row storing the order id.
findOneByOrder(ledger, order) ==
  LET hits == {i \in 1..Len(ledger) : ledger[i].razorpayOrderId = order}
  IN  IF hits = {} THEN Null ELSE CHOOSE i \in hits : \A j \in hits : i <= j

\* Orders whose id has been returned to the client.
issuedOrders == {o \in 1..Len(orders) : orders[o].issued}

\* createPaymentOrder: `await Booking.findById`, the checks, and
\* `await razorpay.orders.create(options)`.
CreateOrder_Start(p) ==
  /\ pc[p] = "idle"
  /\ Len(orders) < MaxOrders
  /\ \E id \in 1..Len(bookings) :
       LET reject(status, message) ==
             /\ respond(p, "createPaymentOrder", status, message, << >>, id)
             /\ UNCHANGED orders
       IN  IF bookings[id].customerId = Null
           THEN reject(500, "Cannot read properties of undefined")
           ELSE IF bookings[id].customerId # Customer
           THEN reject(403, "Not authorized to pay for this booking")
           ELSE IF bookings[id].paymentStatus = "paid"
           THEN reject(400, "Booking is already paid")
           ELSE /\ orders' = Append(orders, [booking |-> id, issued |-> FALSE])
                /\ req' = [req EXCEPT ![p] = [NoRequest EXCEPT !.op = "createPaymentOrder",
                                                !.bookingId = id, !.order = Len(orders) + 1]]
                /\ loc' = [loc EXCEPT ![p] = [EmptyLoc EXCEPT !.booking = loaded(id),
                                                              !.bookingId = id]]
                /\ pc' = [pc EXCEPT ![p] = "po_save"]
                /\ silent
  /\ UNCHANGED <<now, turfSlots, bookings, sweep, callbacks, mails, faults>>

\* `booking.razorpayOrderId = order.id`, `await booking.save()` and the
\* response that hands the order id to the client.
CreateOrder_Save(p) ==
  /\ pc[p] = "po_save"
  /\ \E saved \in WriteOutcomes :
       IF ~saved
       THEN /\ respond(p, "createPaymentOrder", 500, "Failed to create payment order",
                       << >>, loc[p].bookingId)
            /\ faults' = faults - 1
            /\ UNCHANGED <<bookings, orders>>
       ELSE /\ bookings' = [bookings EXCEPT ![loc[p].bookingId].razorpayOrderId =
                                                req[p].order]
            /\ orders' = [orders EXCEPT ![req[p].order].issued = TRUE]
            /\ respond(p, "createPaymentOrder", 200, "order created", << >>,
                       loc[p].bookingId)
            /\ UNCHANGED faults
  /\ UNCHANGED <<now, turfSlots, sweep, callbacks, mails>>

\* Signatures a caller may present for a body: the provider's, one made with
\* another key, and the provider's signature of another body.
Presented(secret, body, other) ==
  {hmac(secret, body), hmac("forged", body), hmac(secret, other)}

\* The Booking paths verifyPayment assigns, from the document it loaded.
verifyAssign(b, order, payment, signature, at) ==
  [paymentStatus |-> "paid", paymentMethod |-> "online", razorpayPaymentId |-> payment,
   razorpayOrderId |-> order, razorpaySignature |-> signature, paidAt |-> at]

\* verifyPayment: the signature check, `await Booking.findById(bookingId)`,
\* the ownership check and the assignments.
Verify_Start(p) ==
  /\ pc[p] = "idle"
  /\ receive("verifyPayment")
  /\ \E o \in issuedOrders, pay \in PaymentIds, id \in 1..Len(bookings) :
       \E signature \in Presented(KeySecret, <<o, pay>>, <<Null, pay>>) :
         LET callback == [NoRequest EXCEPT !.op = "verifyPayment", !.bookingId = id,
                                           !.order = o, !.payment = pay,
                                           !.signature = signature]
             reject(status, message) ==
               answer(p, callback, "verifyPayment", status, message, id)
         IN  IF verifySignatureMismatch(o, pay, signature)
             THEN reject(400, "Invalid payment signature")
             ELSE IF bookings[id].customerId = Null
             THEN reject(500, "Payment verification failed")
             ELSE IF bookings[id].customerId # Customer
             THEN reject(403, "Not authorized")
             ELSE /\ req' = [req EXCEPT ![p] = callback]
                  /\ loc' = [loc EXCEPT ![p] = [EmptyLoc EXCEPT
                               !.booking = [loaded(id) EXCEPT !.paidAt = now],
                               !.bookingId = id]]
                  /\ pc' = [pc EXCEPT ![p] = "vp_save"]
                  /\ silent
  /\ UNCHANGED <<now, turfSlots, bookings, sweep, orders, mails, faults>>

\* `await booking.save()`, the confirmation mail when the loaded booking was
\* not paid, and the 200 response.
Verify_Save(p) ==
  /\ pc[p] = "vp_save"
  /\ LET id == loc[p].bookingId
         wasPaid == loc[p].booking.paymentStatus = "paid"
         set == verifyAssign(bookings[id], req[p].order, req[p].payment, req[p].signature,
                             loc[p].booking.paidAt)
     IN  \E saved \in WriteOutcomes :
           IF ~saved
           THEN /\ answer(p, req[p], "verifyPayment", 500, "Payment verification failed", id)
                /\ faults' = faults - 1
                /\ UNCHANGED <<bookings, mails>>
           ELSE /\ bookings' = [bookings EXCEPT ![id] =
                      [@ EXCEPT !.paymentStatus = IF wasPaid THEN @ ELSE set.paymentStatus,
                                !.paymentMethod = set.paymentMethod,
                                !.razorpayPaymentId = set.razorpayPaymentId,
                                !.razorpayOrderId = set.razorpayOrderId,
                                !.razorpaySignature = set.razorpaySignature,
                                !.paidAt = set.paidAt]]
                /\ mails' = IF ~wasPaid THEN [mails EXCEPT !.confirmation[id] = @ + 1]
                            ELSE mails
                /\ answer(p, req[p], "verifyPayment", 200, "Payment verified successfully", id)
                /\ UNCHANGED faults
  /\ UNCHANGED <<now, turfSlots, sweep, orders, callbacks>>

WebhookEvents == {"payment.captured", "payment.failed", "order.paid"}

\* booking.save(): the paths whose value the handler changed in the document
\* it loaded are written; the other paths of the stored document stay.
saveDoc(stored, was, changed) ==
  [f \in DOMAIN stored |->
     IF f \in DOMAIN changed /\ changed[f] # was[f] THEN changed[f] ELSE stored[f]]

\* A handler that cancels the booking along with the failed payment.
failedAssignCancelling(b) == [b EXCEPT !.paymentStatus = "failed", !.status = "cancelled"]

\* handlePaymentFailed: what it assigns to the booking it found.
failedAssign(b) == [b EXCEPT !.paymentStatus = "failed"]

\* handlePaymentCaptured and handleOrderPaid: what they write to the booking.
paidAssign(b, event, payment, at) ==
  [b EXCEPT !.paymentStatus = "paid",
            !.razorpayPaymentId = IF event = "payment.captured" THEN payment ELSE @,
            !.paidAt = at]

\* Whether the webhook handler of `event` goes on to change the booking it
\* found, whose payment status is `was`.
webhookApplies(event, was) ==
  IF event = "payment.failed" THEN TRUE ELSE was # "paid"

\* handlePaymentWebhook: the signature check, the dispatch on the event and
\* the handler's `await Booking.findOne({ razorpayOrderId })`.
Webhook_Start(p) ==
  /\ pc[p] = "idle"
  /\ \E event \in WebhookEvents, o \in issuedOrders, pay \in PaymentIds :
       /\ receive(event)
       /\ LET body == [event |-> event, order |-> o, payment |-> pay]
              id == findOneByOrder(bookings, o)
          IN  \E signature \in Presented(WebhookSecret, body, [body EXCEPT !.order = Null]) :
                LET callback == [NoRequest EXCEPT !.op = event, !.bookingId = id, !.order = o,
                                                  !.payment = pay, !.signature = signature]
                IN  IF webhookSignatureMismatch(body, signature)
                    THEN answer(p, callback, "webhook", 400, "Invalid webhook signature", Null)
                    ELSE IF id = Null \/ ~webhookApplies(event, bookings[id].paymentStatus)
                    THEN answer(p, callback, "webhook", 200, "ok", id)
                    ELSE /\ req' = [req EXCEPT ![p] = callback]
                         /\ loc' = [loc EXCEPT ![p] = [EmptyLoc EXCEPT
                                      !.booking = [loaded(id) EXCEPT !.paidAt = now],
                                      !.bookingId = id]]
                         /\ pc' = [pc EXCEPT ![p] = "wh_save"]
                         /\ silent
  /\ UNCHANGED <<now, turfSlots, bookings, sweep, orders, mails, faults>>

\* The handler's `await booking.save()`, its confirmation mail to
\* customerInfo.email, and the 200 response; a rejected save is logged.
Webhook_Save(p) ==
  /\ pc[p] = "wh_save"
  /\ LET id == loc[p].bookingId
         event == req[p].op
         was == loc[p].booking.paymentStatus
     IN  \E saved \in WriteOutcomes :
           IF ~saved
           THEN /\ faults' = faults - 1
                /\ UNCHANGED <<bookings, mails>>
           ELSE /\ UNCHANGED faults
                /\ IF event = "payment.failed"
                   THEN /\ bookings' = [bookings EXCEPT ![id] =
                             saveDoc(@, loc[p].booking, failedAssign(loc[p].booking))]
                        /\ UNCHANGED mails
                   ELSE /\ bookings' = [bookings EXCEPT ![id] =
                             paidAssign(@, event, req[p].payment, loc[p].booking.paidAt)]
                        /\ mails' = IF bookings[id].email
                                    THEN [mails EXCEPT !.confirmation[id] = @ + 1]
                                    ELSE mails
  /\ answer(p, req[p], "webhook", 200, "ok", loc[p].bookingId)
  /\ UNCHANGED <<now, turfSlots, sweep, orders, callbacks>>

(***************************************************************************)
(* The clock.                                                              *)
(***************************************************************************)
Tick(instants) ==
  /\ \E t \in instants : t > now /\ now' = t
  /\ silent
  /\ UNCHANGED <<turfSlots, bookings, pc, req, loc, sweep, orders, callbacks, mails, faults>>

(***************************************************************************)
(* Specifications.                                                         *)
(***************************************************************************)
Reserve(p) ==
  \/ CreateBooking_Start(p)
  \/ CreateBooking_Create(p)
  \/ CreateBooking_Bind(p)
  \/ OwnerBookSlot_Start(p)
  \/ OwnerBookSlot_Create(p)
  \/ OwnerBookSlot_Bind(p)

Handle(p) ==
  \/ Reserve(p)
  \/ CancelBooking_Start(p)
  \/ CancelBooking_Save(p)
  \/ CancelBooking_FindTurf(p)
  \/ CancelBooking_SaveTurf(p)
  \/ OwnerCancel_Start(p)
  \/ OwnerCancel_FindBooking(p)
  \/ OwnerCancel_Save(p)
  \/ OwnerCancel_SaveTurf(p)

\* Reservations and cancellations, one request at a time: each runs to its
\* response before the next starts, and the clock moves between requests.
Next ==
  \/ Handle(1)
  \/ pc[1] = "idle" /\ Tick(Instants)

Spec == Init /\ [][Next]_vars

Pay(p) ==
  \/ CreateOrder_Start(p)
  \/ CreateOrder_Save(p)
  \/ Verify_Start(p)
  \/ Verify_Save(p)
  \/ Webhook_Start(p)
  \/ Webhook_Save(p)

\* Two online bookings of the customer, made for the first and the second
\* monday in this order.
TwoBookings ==
  << NewBooking(SlotRequest(1, 1, 1), SlotDefs(1)[1].price, Customer,
                "online", "online", FirstCode),
     NewBooking(SlotRequest(DaysPerWeek + 1, 1, 1), SlotDefs(1)[1].price,
                Customer, "online", "online", FirstCode + 1) >>

\* The ledger of the two bookings: the slot is bound to the second.
InitLedger ==
  /\ now = StartOfRun
  /\ bookings = TwoBookings
  /\ turfSlots = [k \in SlotKeys |->
                    IF k = <<1, 1>>
                    THEN [isBooked |-> TRUE, bookedBy |-> 2, bookingDate |-> DaysPerWeek + 1]
                    ELSE FreeBinding]
  /\ acked = {1, 2}

\* Payment requests and provider callbacks, interleaved at every await.
InitPay == InitLedger /\ InitIdle /\ faults = 0

\* The clock is observed once more, an hour into the run.
NextPay == (\E p \in Procs : Pay(p)) \/ Tick({StartOfRun + MinutesPerHour})

SpecPay == InitPay /\ [][NextPay]_vars

SweepStep == Sweep_Start \/ Sweep_Save \/ Sweep_Mail

Life(p) ==
  \/ CancelBooking_Start(p)
  \/ CancelBooking_Save(p)
  \/ CancelBooking_FindTurf(p)
  \/ CancelBooking_SaveTurf(p)
  \/ CheckIn_Start(p)
  \/ CheckIn_Save(p)

\* The life of the two bookings: cancellation, check-in, the sweep and the
\* clock take turns, each running to its end before the next starts.
NextLife ==
  \/ sweep.pc = "idle" /\ Life(1)
  \/ pc[1] = "idle" /\ SweepStep
  \/ pc[1] = "idle" /\ sweep.pc = "idle" /\ Tick(SweepInstants)

InitLife == InitLedger /\ InitIdle /\ faults = 0

SpecLife == InitLife /\ [][NextLife]_vars

\* Concurrent reservation requests, interleaved at every await.
NextRace == \E p \in Procs : Reserve(p)

SpecRace == Init /\ [][NextRace]_vars

\* Reservation requests served one after the other by a store that rejects
\* up to MaxFaults writes.
InitFault == InitStore /\ faults = MaxFaults
NextFault == Reserve(1)
SpecFault == InitFault /\ [][NextFault]_vars

\* The status values the Booking schema admits.
StatusEnum == {"pending", "confirmed", "in_progress", "completed", "cancelled", "no-show"}

\* Cancellation requests of the customer and of the owner on a ledger that
\* holds one booking of the first monday slot, in any status of the schema,
\* made online by the customer or offline by the owner.
InitCancel ==
  /\ now = StartOfRun
  /\ \E status \in StatusEnum, d \in {e \in Dates : isOpen(getDay(e))},
        customerId \in {Customer, Null} :
        /\ bookings = << [NewBooking(SlotRequest(d, 1, 1), SlotDefs(1)[1].price, customerId,
                                     IF customerId = Null THEN "cash" ELSE "online",
                                     IF customerId = Null THEN "offline" ELSE "online",
                                     FirstCode)
                            EXCEPT !.status = status] >>
        /\ turfSlots = [k \in SlotKeys |->
                          IF k = <<1, 1>> /\ status \notin {"cancelled", "completed"}
                          THEN [isBooked |-> TRUE, bookedBy |-> 1, bookingDate |-> d]
                          ELSE FreeBinding]
  /\ acked = {1}
  /\ InitIdle
  /\ faults = 0

\* One request at a time; the clock moves between requests.
NextCancel ==
  \/ CancelBooking_Start(1)
  \/ CancelBooking_Save(1)
  \/ CancelBooking_FindTurf(1)
  \/ CancelBooking_SaveTurf(1)
  \/ OwnerCancel_Start(1)
  \/ OwnerCancel_FindBooking(1)
  \/ OwnerCancel_Save(1)
  \/ OwnerCancel_SaveTurf(1)
  \/ pc[1] = "idle" /\ Tick(Instants)

SpecCancel == InitCancel /\ [][NextCancel]_vars

(***************************************************************************)
(* Properties.                                                             *)
(***************************************************************************)
live(b) == b.status # "cancelled"
sameTuple(a, b) ==
  a.bookingDate = b.bookingDate /\ a.startTime = b.startTime /\ a.endTime = b.endTime
ReserveOps == {"createBooking", "bookSlot"}
Success == {200, 201}

\* C1: of the reservation requests (createBooking, owner bookSlot) that run
\* concurrently for one (turf, date, startTime, endTime), only one creates a
\* Booking and succeeds: when a request is answered with success, no other
\* request still in flight has inserted a Booking for a tuple of its own.
C1_ExactlyOneConcurrentWinner ==
  \A q \in Procs :
    (resp.op \in ReserveOps /\ resp.status \in Success /\ q # resp.proc /\ pc[q] # "idle")
      => \A i \in 1..Len(resp.created), j \in 1..Len(loc[q].created) :
           ~sameTuple(bookings[resp.created[i]], bookings[loc[q].created[j]])

\* C2: after any sequence of requests served one at a time, the ledger holds
\* at most one Booking that is not cancelled for each (turf, date, startTime,
\* endTime), also when bookings were made for different dates of one weekday.
C2_AtMostOneLiveBookingPerTuple ==
  \A i, j \in 1..Len(bookings) :
    (i < j /\ live(bookings[i]) /\ live(bookings[j])) => ~sameTuple(bookings[i], bookings[j])

\* The slot binding booking `id` was given is the stored one.
boundTo(id) ==
  LET b == bookings[id]
      w == getDay(b.bookingDate)
      i == findSlot(w, b.startTime, b.endTime)
  IN  /\ i # Null
      /\ turfSlots[<<w, i>>] = [isBooked |-> TRUE, bookedBy |-> id, bookingDate |-> b.bookingDate]

\* C3: a reservation request answered with an error has written no Booking
\* row (and so bound no slot), also when it failed at the binding step or at
\* the turf save; a request answered with success has persisted the Booking
\* row and the binding of each slot it reserved.
C3_FailedReservationLeavesNoTrace ==
  resp.op \in ReserveOps =>
    IF resp.status \in Success
    THEN \A i \in 1..Len(resp.created) :
           resp.created[i] \in 1..Len(bookings) /\ boundTo(resp.created[i])
    ELSE resp.created = << >>

\* The answer of the slot check for the tuple of booking b, now.
slotCheck(b) == checkSlotAvailability(turfSlots, b.bookingDate, b.startTime, b.endTime, now)

\* C4: from the success response of createBooking on, and whatever was
\* booked for other dates or slots since, the slot check for the booking's
\* tuple answers unavailable as long as the booking is not cancelled; at the
\* success response of cancelBooking it answers available again.
C4_CheckFollowsBooking ==
  /\ \A id \in acked :
       (bookings[id].bookingType = "online" /\ live(bookings[id])) => ~slotCheck(bookings[id])
  /\ (resp.op = "cancelBooking" /\ resp.status \in Success)
       => slotCheck(bookings[resp.bookingId])

\* C5: with no request in flight, getAvailableSlots(date) returns no slot for
\* which the ledger holds a Booking of that date that is not cancelled.
C5_AvailableSlotsHaveNoLiveBooking ==
  pc[1] = "idle" =>
    \A d \in Dates : \A i \in getAvailableSlots(turfSlots, d, now) :
      ~\E id \in 1..Len(bookings) :
          /\ live(bookings[id])
          /\ sameTuple(bookings[id], [bookingDate |-> d,
                                      startTime |-> SlotDefs(getDay(d))[i].startTime,
                                      endTime |-> SlotDefs(getDay(d))[i].endTime])

Terminal == {"completed", "cancelled", "no-show"}
rank(status) == IF status = "confirmed" THEN 0 ELSE IF status = "in_progress" THEN 1 ELSE 2

\* C6: no operation makes a Booking's status regress, and a booking whose
\* status is completed, cancelled or no-show never changes status again:
\* every change of status starts from confirmed or in_progress and moves
\* forward along confirmed, in_progress, {completed, cancelled, no-show}.
C6_StatusNeverRegresses ==
  [][\A id \in 1..Len(bookings) :
       bookings'[id].status # bookings[id].status
         => /\ bookings[id].status \notin Terminal
            /\ rank(bookings[id].status) < rank(bookings'[id].status)]_vars

\* The condition under which a cancellation is to succeed: the status is
\* confirmed or in_progress and the slot starts at least two hours from `at`.
cancellable(b, at) ==
  /\ b.status \in {"confirmed", "in_progress"}
  /\ at + CancelLeadHours * MinutesPerHour <= startInstant(b.bookingDate, b.startTime)

\* C7: Booking.cancelBooking cancels the booking exactly when the current
\* time is at least 2 hours before the slot's start and the status is
\* confirmed or in_progress: a booking turns cancelled only then, and is
\* refused ("Booking cannot be cancelled") only otherwise.
C7_CancelIffTwoHoursAheadAndNotTerminal ==
  [][\A id \in 1..Len(bookings) :
       /\ (bookings[id].status # "cancelled" /\ bookings'[id].status = "cancelled")
            => cancellable(bookings[id], now)
       /\ (resp'.message = "Booking cannot be cancelled" /\ resp'.bookingId = id)
            => ~cancellable(bookings[id], now)]_vars

\* C8: however verify calls and webhooks of a successful payment are repeated
\* and interleaved, one booking-confirmation mail is sent for the booking.
C8_OneConfirmationPerBooking ==
  \A id \in 1..Len(bookings) : mails.confirmation[id] <= 1

\* C9: a verify call or webhook answered with success leaves paidAt, the
\* payment id, the order id and the signature of a booking that was already
\* paid as they were.
C9_PaidBookingKeepsPaymentFields ==
  [][\A id \in 1..Len(bookings) :
       (bookings[id].paymentStatus = "paid" /\ resp'.op \in {"verifyPayment", "webhook"}
          /\ resp'.status \in Success)
         => /\ bookings'[id].paidAt = bookings[id].paidAt
            /\ bookings'[id].razorpayPaymentId = bookings[id].razorpayPaymentId
            /\ bookings'[id].razorpayOrderId = bookings[id].razorpayOrderId
            /\ bookings'[id].razorpaySignature = bookings[id].razorpaySignature]_vars

\* The signature the provider makes for a callback.
expectedSignature(c) ==
  IF c.op = "verifyPayment" THEN hmac(KeySecret, <<c.order, c.payment>>)
  ELSE hmac(WebhookSecret, [event |-> c.op, order |-> c.order, payment |-> c.payment])
InvalidSignature == {"Invalid payment signature", "Invalid webhook signature"}

\* C10: a verify call or a webhook whose signature is not the expected one is
\* answered 400 with the invalid-signature error, and the step that answers
\* it changes no Booking and sends no mail.
C10_InvalidSignatureRejectedUnchanged ==
  [][(resp'.op \in {"verifyPayment", "webhook"}
        /\ resp'.callback.signature # expectedSignature(resp'.callback))
       => /\ resp'.status = 400
          /\ resp'.message \in InvalidSignature
          /\ bookings' = bookings
          /\ mails' = mails]_vars

\* An invalid-signature rejection was just sent while a booking with an
\* issued order awaits payment.
C10_Witness ==
  /\ resp.message \in InvalidSignature
  /\ resp.callback.signature # expectedSignature(resp.callback)
  /\ \E id \in 1..Len(bookings) :
       bookings[id].paymentStatus = "pending" /\ bookings[id].razorpayOrderId \in issuedOrders

ProviderEvents == <<"payment.captured", "payment.failed", "order.paid">>

\* The event just received carries the provider's signature.
signedByProvider(p) ==
  LET c == IF pc[p] = "idle" THEN resp.callback ELSE req[p]
  IN  c.signature = expectedSignature(c)

\* handlePaymentWebhook receiving an event of the provider.
Webhook_Deliver(p) == Webhook_Start(p) /\ signedByProvider(p)'

Deliver(p) ==
  \/ CreateOrder_Start(p)
  \/ CreateOrder_Save(p)
  \/ Webhook_Deliver(p)
  \/ Webhook_Save(p)

\* The two bookings, and the provider's events still to be delivered.
InitDeliver ==
  /\ InitLedger
  /\ InitQuiet
  /\ callbacks = Outbox(0, [k \in {ProviderEvents[i] : i \in DOMAIN ProviderEvents} |-> 1])
  /\ faults = 0

NextDeliver == \E p \in Procs : Deliver(p)

SpecDeliver == InitDeliver /\ [][NextDeliver]_vars

\* The payment state of a booking: its paymentStatus and whether paidAt is set.
payState(b) == <<b.paymentStatus, b.paidAt # Null>>

\* What the webhook handler of `event` does to booking b when it runs alone.
deliver(b, event, payment, at) ==
  IF ~webhookApplies(event, b.paymentStatus) THEN b
  ELSE IF event = "payment.failed" THEN failedAssign(b)
  ELSE paidAssign(b, event, payment, at)

RECURSIVE deliverAll(_, _, _, _)
deliverAll(b, events, payment, at) ==
  IF events = << >> THEN b
  ELSE deliverAll(deliver(b, Head(events), payment, at), Tail(events), payment, at)

\* Every event of the provider has been delivered and handled, all of them
\* for the one order there is.
allDelivered ==
  /\ Len(orders) = 1
  /\ \A k \in DOMAIN callbacks : callbacks[k] = 0
  /\ \A p \in Procs : pc[p] = "idle"

\* C12: once the provider's three events for the one order (payment.captured,
\* payment.failed, order.paid, validly signed) have all been handled, the
\* booking's payment state is the one their delivery in dispatch order
\* leaves, whatever the order they arrived in.
C12_PaymentStateIgnoresDeliveryOrder ==
  allDelivered =>
    LET id == orders[1].booking
    IN  payState(bookings[id]) =
          payState(deliverAll(TwoBookings[id], ProviderEvents,
                              CHOOSE pay \in PaymentIds : TRUE, now))

\* C13: a verify call that is answered after changing a booking's payment
\* state (marking it paid, or rewriting its stored order id) changed the
\* booking its order was created for, no other.
C13_VerifyChangesOnlyTheOrdersBooking ==
  [][\A id \in 1..Len(bookings) :
       ( /\ resp'.op = "verifyPayment"
         /\ \/ bookings[id].paymentStatus # "paid" /\ bookings'[id].paymentStatus = "paid"
            \/ bookings'[id].razorpayOrderId # bookings[id].razorpayOrderId )
         => orders[resp'.callback.order].booking = id]_vars

\* The slot of a booking as the turf reads its times: [slotStart, slotEnd).
slotStart(b) == b.bookingDate * MinutesPerDay + parseTimeToMinutes(b.startTime)
slotEnd(b) == b.bookingDate * MinutesPerDay + parseTimeToMinutes(b.endTime)

\* C14: when the sweep has dealt with a candidate (a confirmed or in_progress
\* booking), at the sweep's `now`: the status is in_progress if the slot has
\* started and not ended, and completed if the slot has ended, the instant
\* of its end included.
C14_SweepStatusFollowsSlot ==
  [][(sweep.pc = "loop" /\ sweep' # sweep)
       => LET id == Head(sweep.queue).id
              b == bookings[id]
          IN  /\ (slotStart(b) <= sweep.now /\ sweep.now < slotEnd(b))
                   => bookings'[id].status = "in_progress"
              /\ slotEnd(b) <= sweep.now
                   => bookings'[id].status = "completed"]_vars

\* The review mail of the sweep going out.
Sweep_MailSent == Sweep_Mail /\ mails' # mails

\* The two bookings, cancellation, the sweep and the clock, without check-in.
NextSweep ==
  \/ sweep.pc = "idle" /\ CancelBooking_Start(1)
  \/ sweep.pc = "idle" /\ CancelBooking_Save(1)
  \/ sweep.pc = "idle" /\ CancelBooking_FindTurf(1)
  \/ sweep.pc = "idle" /\ CancelBooking_SaveTurf(1)
  \/ pc[1] = "idle" /\ SweepStep
  \/ pc[1] = "idle" /\ sweep.pc = "idle" /\ Tick(SweepInstants)

\* The sweep keeps running whenever it can, and its mail goes out if sending
\* is possible again and again.
SpecSweepFair ==
  /\ InitLife
  /\ [][NextSweep]_vars
  /\ WF_vars(pc[1] = "idle" /\ SweepStep)
  /\ SF_vars(pc[1] = "idle" /\ Sweep_MailSent)

\* C15: a booking the sweep has completed gets its review mail, and never
\* more than one.
C15_ReviewMailExactlyOnce ==
  \A id \in DOMAIN TwoBookings :
    /\ [](mails.review[id] <= 1)
    /\ (bookings[id].status = "completed") ~> (mails.review[id] = 1)

(***************************************************************************)
(* The owner's offline bookings, by either definition of bookSlot.         *)
(***************************************************************************)
NextOwner ==
  \/ OwnerBookSlot_Start(1)
  \/ OwnerBookSlot2_Start(1)
  \/ OwnerBookSlot_Create(1)
  \/ OwnerBookSlot_Bind(1)
  \/ pc[1] = "idle" /\ Tick(Instants)

SpecOwner == Init /\ [][NextOwner]_vars

\* C16: the owner's bookSlot creates a Booking, and binds a slot, only
\* for today: a request for any other day leaves the bookings and the
\* bindings as they are.
C16_OwnerBooksOnlyForToday ==
  [][\A p \in Procs :
       (pc[p] \in {"ob_create", "ob_bind"} /\ req[p].slots[1].date # dateOf(now))
         => bookings' = bookings /\ turfSlots' = turfSlots]_vars

(***************************************************************************)
(* The Booking model on its own: documents created and saved with duration *)
(* and totalAmount supplied by the caller, as the seeder does.             *)
(***************************************************************************)
MaxDocs == 1

\* Times on half hours, with and without a suffix; prices; and what a caller
\* passes for duration and totalAmount: nothing, or values of its own.
DocTimes == {Time(10, 0, ""), Time(11, 30, "AM"), Time(1, 0, "PM")}
DocPrices == {0, SlotDefs(1)[1].price}
DocSupplied == {[duration |-> 0, totalAmount |-> 0],
                [duration |-> MinutesPerHour, totalAmount |-> BasePrice]}
Docs == {[date |-> 1, startTime |-> a, endTime |-> b, pricePerHour |-> price,
          duration |-> c.duration, totalAmount |-> c.totalAmount] :
           a \in DocTimes, b \in DocTimes, price \in DocPrices, c \in DocSupplied}

\* The document with the caller's values on every path the caller sets.
assigned(b, doc) ==
  [b EXCEPT !.startTime = doc.startTime, !.endTime = doc.endTime,
            !.pricePerHour = doc.pricePerHour, !.duration = doc.duration,
            !.totalAmount = doc.totalAmount]

\* `await Booking.create({..., duration, totalAmount, ...})`: the hooks run
\* on the caller's document, then the validators, then the insert.
Booking_Create(p) ==
  /\ pc[p] = "idle"
  /\ Len(bookings) < MaxDocs
  /\ \E doc \in Docs, samples \in RandomDraws(bookings) :
       LET call == [NoRequest EXCEPT !.op = "Booking.create", !.slots = <<doc>>]
           made == preValidate(assigned(
                     NewBooking(doc, doc.pricePerHour, Null, "cash", "offline",
                                generateBookingCode(samples, codesOf(bookings))), doc))
       IN  IF validates(made)
           THEN /\ bookings' = Append(bookings, made)
                /\ answer(p, call, "Booking.create", 201, "created", Len(bookings) + 1)
           ELSE /\ UNCHANGED bookings
                /\ answer(p, call, "Booking.create", 400, "validation failed", Null)
  /\ UNCHANGED <<now, turfSlots, sweep, orders, callbacks, mails, faults>>

\* A stored document is loaded, the caller assigns startTime, endTime,
\* pricePerHour, duration and totalAmount, and `await doc.save()` runs the
\* hooks and the validators before the write.
Booking_Save(p) ==
  /\ pc[p] = "idle"
  /\ \E id \in 1..Len(bookings), doc \in Docs :
       LET call == [NoRequest EXCEPT !.op = "Booking.save", !.slots = <<doc>>,
                                     !.bookingId = id]
           made == preValidate(assigned(bookings[id], doc))
       IN  IF validates(made)
           THEN /\ bookings' = [bookings EXCEPT ![id] = made]
                /\ answer(p, call, "Booking.save", 200, "saved", id)
           ELSE /\ UNCHANGED bookings
                /\ answer(p, call, "Booking.save", 400, "validation failed", Null)
  /\ UNCHANGED <<now, turfSlots, sweep, orders, callbacks, mails, faults>>

NextAmount == Booking_Create(1) \/ Booking_Save(1)

SpecAmount == Init /\ [][NextAmount]_vars

\* C17: every persisted Booking has duration = end - start of its slot in
\* minutes and totalAmount * 60 = duration * pricePerHour, whatever duration
\* and totalAmount the caller of create or save supplied.
C17_AmountDerivedFromSlotAndPrice ==
  \A i \in 1..Len(bookings) :
    /\ bookings[i].duration = slotEnd(bookings[i]) - slotStart(bookings[i])
    /\ bookings[i].totalAmount * MinutesPerHour
         = bookings[i].duration * bookings[i].pricePerHour

\* A save was just accepted that changed the slot and the price of a stored
\* booking and carried a duration and a totalAmount other than the derived
\* ones: the stored document holds the derived values.
C17_Witness ==
  /\ resp.op = "Booking.save" /\ resp.status = 200
  /\ LET doc == resp.callback.slots[1]
         b == bookings[resp.bookingId]
     IN  /\ b.startTime = doc.startTime /\ b.endTime = doc.endTime
         /\ b.pricePerHour = doc.pricePerHour
         /\ doc.duration # 0 /\ doc.duration # b.duration
         /\ doc.totalAmount # 0 /\ doc.totalAmount # b.totalAmount
         /\ b.duration > 0 /\ b.totalAmount > 0

\* C18: the save of a check-in changes the status only of a confirmed
\* booking, to in_progress; for a cancelled, completed or no-show booking
\* the status stays and the call is not answered with success.
C18_CheckInOnlyFromConfirmed ==
  [][\A p \in Procs :
       pc[p] = "ci_save"
         => LET id == loc[p].bookingId
                was == bookings[id].status
            IN  /\ bookings'[id].status # was
                     => was = "confirmed" /\ bookings'[id].status = "in_progress"
                /\ was \in {"cancelled", "completed", "no-show"}
                     => bookings'[id].status = was /\ resp'.status \notin Success]_vars

(***************************************************************************)
(* Reservations on a turf whose owner the admin reviews.                   *)
(***************************************************************************)
Owners == [adminApprovalStatus : {"pending", "approved", "rejected"}, isActive : BOOLEAN]

\* The admin changes the owner's approval status or activity.
Admin_Review ==
  /\ \E o \in Owners : o # owner /\ owner' = o
  /\ resp' = NoResponse
  /\ UNCHANGED <<now, turfSlots, bookings, pc, req, loc, sweep, orders, callbacks, mails,
                 acked, faults>>

NextGate ==
  \/ CreateBooking_Start(1)
  \/ CreateBooking_Create(1)
  \/ CreateBooking_Bind(1)
  \/ pc[1] = "idle" /\ Admin_Review
  \/ pc[1] = "idle" /\ Tick(Instants)

SpecGate == Init /\ [][NextGate]_vars

\* The check Turf.pre('save') makes of the owner.
ownerBlocked == owner.adminApprovalStatus # "approved" \/ ~owner.isActive

\* C19: while the owner of the turf is not approved or not active, no date
\* has available slots, no slot check says available, and no step of
\* createBooking inserts a Booking.
C19_BlockedOwnerTurfUnavailable ==
  [][ownerBlocked =>
       /\ \A d \in Dates : getAvailableSlots(turfSlots, d, now) = {}
       /\ \A s \in SlotRequests :
            ~checkSlotAvailability(turfSlots, s.date, s.startTime, s.endTime, now)
       /\ Len(bookings') = Len(bookings)]_vars

(***************************************************************************)
(* Reservations by the customer over more than a week of clock.            *)
(***************************************************************************)
AdvanceBookingDays == 30   \* TurfSchema.advanceBookingDays default

\* The instants of the first monday, and eight o'clock of the second.
WeekInstants == Instants \cup {StartOfRun + DaysPerWeek * MinutesPerDay}

NextWindow ==
  \/ CreateBooking_Start(1)
  \/ CreateBooking_Create(1)
  \/ CreateBooking_Bind(1)
  \/ pc[1] = "idle" /\ Tick(WeekInstants)

SpecWindow == Init /\ [][NextWindow]_vars

\* C20: a createBooking slot whose date is before today, or more than
\* advanceBookingDays after today, is rejected: the step that handles it
\* inserts no Booking, binds no slot and answers with an error.
C20_DateOutsideWindowRejected ==
  [][\A p \in Procs :
       pc[p] \in {"cb_iter", "cb_bind"}
         => LET date == req[p].slots[loc[p].i].date
            IN  (date < dateOf(now) \/ date > dateOf(now) + AdvanceBookingDays)
                  => /\ bookings' = bookings
                     /\ turfSlots' = turfSlots
                     /\ resp'.status = 400]_vars

\* C21: for every date and slot a client may name, the single-slot check
\* answers available exactly when getAvailableSlots(date) returns the slot:
\* both leave out the slots booked for the date and the slots of today whose
\* start has passed.
C21_CheckAgreesWithAvailableSlots ==
  \A s \in SlotRequests :
    checkSlotAvailability2(turfSlots, s.date, s.startTime, s.endTime)
      <=> findSlot(getDay(s.date), s.startTime, s.endTime)
            \in getAvailableSlots(turfSlots, s.date, now)

\* C22: with no request in flight, every template slot flagged booked for a
\* date has a Booking of that date and slot that is not cancelled.
C22_BoundSlotHasLiveBooking ==
  (\A p \in Procs : pc[p] = "idle") =>
    \A k \in SlotKeys :
      turfSlots[k].isBooked =>
        \E id \in 1..Len(bookings) :
          /\ live(bookings[id])
          /\ sameTuple(bookings[id], [bookingDate |-> turfSlots[k].bookingDate,
                                      startTime |-> SlotDefs(k[1])[k[2]].startTime,
                                      endTime |-> SlotDefs(k[1])[k[2]].endTime])

CancelOps == {"cancelBooking", "cancelSlotBooking"}

\* The slot of booking b is bound for b's date.
boundFor(t, b) ==
  LET w == getDay(b.bookingDate)
      i == findSlot(w, b.startTime, b.endTime)
  IN  i # Null /\ t[<<w, i>>].isBooked /\ t[<<w, i>>].bookingDate = b.bookingDate

\* C23: a cancellation request (the customer's cancelBooking, the owner's
\* cancelSlotBooking) served on its own is all or nothing: answered with
\* success, the booking it found is cancelled and its slot no longer bound
\* for its date; answered with an error, the booking's status and every
\* binding are as they were when the request came in.
C23_CancelAllOrNothing ==
  [][\A p \in Procs :
       (resp'.op \in CancelOps /\ resp'.proc = p)
         => LET id == IF pc[p] = "idle" THEN Null ELSE loc[p].bookingId
            IN  IF resp'.status \in Success
                THEN id # Null
                       => /\ bookings'[id].status = "cancelled"
                          /\ ~boundFor(turfSlots', bookings'[id])
                ELSE /\ turfSlots' = turfSlots
                     /\ IF id = Null THEN bookings' = bookings
                        ELSE bookings'[id].status = loc[p].booking.status]_vars

(***************************************************************************)
(* The Turf methods on their own: bookSlot and cancelSlotBooking called on *)
(* the stored document for any date, slot and booking id, each followed by *)
(* the caller's turf.save() when it returns.                               *)
(***************************************************************************)
\* turf.bookSlot(date, dayOfWeek, startTime, endTime, booking._id)
Turf_BookSlot(p) ==
  /\ pc[p] = "idle"
  /\ \E s \in SlotRequests, id \in 1..MaxBookings :
       LET call == [NoRequest EXCEPT !.op = "Turf.bookSlot", !.slots = <<s>>,
                                     !.bookingId = id]
           r == bookSlot(turfSlots, s.date, getDay(s.date), s.startTime, s.endTime, id)
       IN  /\ turfSlots' = r.turf
           /\ answer(p, call, "Turf.bookSlot", IF r.err = "" THEN 200 ELSE 500, r.err, id)
  /\ UNCHANGED <<now, bookings, sweep, orders, callbacks, mails, faults>>

\* turf.cancelSlotBooking(date, dayOfWeek, startTime, endTime)
Turf_CancelSlotBooking(p) ==
  /\ pc[p] = "idle"
  /\ \E s \in SlotRequests :
       LET call == [NoRequest EXCEPT !.op = "Turf.cancelSlotBooking", !.slots = <<s>>]
           r == cancelSlotBooking(turfSlots, s.date, getDay(s.date), s.startTime, s.endTime)
       IN  /\ turfSlots' = r.turf
           /\ answer(p, call, "Turf.cancelSlotBooking", IF r.err = "" THEN 200 ELSE 500,
                     r.err, Null)
  /\ UNCHANGED <<now, bookings, sweep, orders, callbacks, mails, faults>>

NextTurf ==
  \/ Turf_BookSlot(1)
  \/ Turf_CancelSlotBooking(1)
  \/ Tick(Instants)

SpecTurf == Init /\ [][NextTurf]_vars

\* Whether a call names an existing slot of an open weekday, and that slot.
namesSlot(call) ==
  LET s == call.slots[1]
  IN  isOpen(getDay(s.date)) /\ findSlot(getDay(s.date), s.startTime, s.endTime) # Null
namedSlot(call) ==
  LET s == call.slots[1]
  IN  <<getDay(s.date), findSlot(getDay(s.date), s.startTime, s.endTime)>>

\* C24: Turf.bookSlot(date, ...) on an existing slot of an open weekday
\* throws, leaving the binding as it is, exactly when the slot is flagged
\* booked with a bookingDate on the day of `date`; otherwise (unbooked, or
\* bound to another date) it returns and the binding is (true, booking id,
\* date).
C24_BookSlotFailsIffBoundForDate ==
  [][(resp'.op = "Turf.bookSlot" /\ namesSlot(resp'.callback))
       => LET k == namedSlot(resp'.callback)
              s == resp'.callback.slots[1]
          IN  IF /\ turfSlots[k].isBooked
                 /\ turfSlots[k].bookingDate # Null
                 /\ turfSlots[k].bookingDate = s.date
              THEN resp'.status = 500 /\ turfSlots' = turfSlots
              ELSE /\ resp'.status = 200
                   /\ turfSlots' = [turfSlots EXCEPT ![k] =
                        [isBooked |-> TRUE, bookedBy |-> resp'.callback.bookingId,
                         bookingDate |-> s.date]]]_vars

\* bookSlot has just returned for a date on which the slot was not bound,
\* and the slot is bound for that date to the booking the call named.
C24_Witness ==
  /\ resp.op = "Turf.bookSlot" /\ resp.status = 200
  /\ namesSlot(resp.callback)
  /\ turfSlots[namedSlot(resp.callback)] =
       [isBooked |-> TRUE, bookedBy |-> resp.callback.bookingId,
        bookingDate |-> resp.callback.slots[1].date]
  /\ resp.callback.slots[1].date > DaysPerWeek

\* C25: Turf.cancelSlotBooking(date, ...) on an existing slot of an open
\* weekday clears the binding when the slot is bound for the day of `date`;
\* when the slot is unbound or bound for another date the call leaves the
\* binding as it is and completes without an error.
C25_CancelSlotNoOpUnlessBoundForDate ==
  [][(resp'.op = "Turf.cancelSlotBooking" /\ namesSlot(resp'.callback))
       => LET k == namedSlot(resp'.callback)
              s == resp'.callback.slots[1]
          IN  /\ resp'.status = 200
              /\ turfSlots' = IF /\ turfSlots[k].isBooked
                                 /\ turfSlots[k].bookingDate = s.date
                              THEN [turfSlots EXCEPT ![k] = FreeBinding]
                              ELSE turfSlots]_vars

(***************************************************************************)
(* The sweep on a store that rejects up to MaxFaults writes.               *)
(***************************************************************************)
\* The instants of the first monday, and on the second monday five past ten
\* (the first booking's slot is over and the second's has begun) and one
\* past eleven (both are over).
LateInstants ==
  SweepInstants \cup {(DaysPerWeek + 1) * MinutesPerDay + m :
                        m \in {10 * MinutesPerHour + 5, 11 * MinutesPerHour + 1}}

InitSweepFault == InitLedger /\ InitIdle /\ faults = MaxFaults

NextSweepFault ==
  \/ SweepStep
  \/ sweep.pc = "idle" /\ Tick(LateInstants)

SpecSweepFault == InitSweepFault /\ [][NextSweepFault]_vars

\* C26: a sweep does not end while a candidate it has not yet dealt with is
\* due for a transition: a failure while saving one booking leaves the other
\* candidates to be transitioned in the same sweep.
C26_SweepContinuesAfterFailedSave ==
  [][(sweep.pc # "idle" /\ sweep'.pc = "idle")
       => \A i \in 2..Len(sweep.queue) :
            LET c == sweep.queue[i]
            IN  sweepStatus([loaded(c.id) EXCEPT !.status = c.status], sweep.now) = c.status]_vars

(***************************************************************************)
(* The customer's cancellation and the sweep, interleaved at every await.  *)
(***************************************************************************)
Wednesday == 3

\* The two bookings and a third, of the wednesday slot over noon.
ThreeBookings ==
  Append(TwoBookings,
         NewBooking(SlotRequest(Wednesday, Wednesday, 1), SlotDefs(Wednesday)[1].price,
                    Customer, "online", "online", FirstCode + 2))

\* Eight o'clock in the morning of that wednesday, each slot bound to the
\* latest booking made for it.
InitOverlap ==
  /\ now = Wednesday * MinutesPerDay + 8 * MinutesPerHour
  /\ bookings = ThreeBookings
  /\ turfSlots = [k \in SlotKeys |->
                    IF k = <<1, 1>>
                    THEN [isBooked |-> TRUE, bookedBy |-> 2, bookingDate |-> DaysPerWeek + 1]
                    ELSE IF k = <<Wednesday, 1>>
                    THEN [isBooked |-> TRUE, bookedBy |-> 3, bookingDate |-> Wednesday]
                    ELSE FreeBinding]
  /\ acked = {1, 2, 3}
  /\ InitIdle
  /\ faults = 0

\* The clock is observed again at nine, and at five past one in the afternoon.
NextOverlap ==
  \/ CancelBooking_Start(1)
  \/ CancelBooking_Save(1)
  \/ CancelBooking_FindTurf(1)
  \/ CancelBooking_SaveTurf(1)
  \/ SweepStep
  \/ /\ pc[1] = "idle" /\ sweep.pc = "idle"
     /\ Tick({Wednesday * MinutesPerDay + m : m \in {9 * MinutesPerHour,
                                                     13 * MinutesPerHour + 5}})

SpecOverlap == InitOverlap /\ [][NextOverlap]_vars

\* C27: the save of the sweep leaves a booking that is stored cancelled
\* cancelled, also when the sweep loaded it while it was confirmed and
\* cancelBooking succeeded since.
C27_SweepKeepsCancelled ==
  [][(sweep.pc = "loop" /\ sweep' # sweep)
       => LET id == Head(sweep.queue).id
          IN  bookings[id].status = "cancelled" => bookings'[id].status = "cancelled"]_vars

(***************************************************************************)
(* Booking.create with the pre('save') hook split at its awaits: every     *)
(* guarded sample awaits a findOne, and the insert follows the hook.       *)
(***************************************************************************)
MaxCodes == 2        \* values Math.random may yield for a code
GuardedSamples == 5  \* for (let i = 0; i < 5; i++)

Codes == FirstCode..(FirstCode + MaxCodes - 1)

\* Documents being created that are not inserted yet.
creating == Cardinality({p \in Procs : pc[p] \in {"bc_sample", "bc_insert"}})

\* One turn of the loop: a sample and `await findOne({ bookingCode: code })`.
\* A sample no stored booking holds is kept; after the fifth sample that is
\* taken, the fallback sample is kept unchecked (loc.i = GuardedSamples + 1).
Hook_Sample(p) ==
  /\ pc[p] \in {"idle", "bc_sample"}
  /\ pc[p] = "idle" => Len(bookings) + creating < MaxBookings
  /\ \E s \in SlotRequests, code \in Codes, fallback \in Codes :
       LET i == IF pc[p] = "idle" THEN 1 ELSE loc[p].i
           doc == IF pc[p] = "idle"
                  THEN [NoRequest EXCEPT !.op = "Booking.create", !.slots = <<s>>]
                  ELSE req[p]
           exists == findOneByCode(bookings, code) # Null
       IN  IF ~exists
           THEN /\ req' = [req EXCEPT ![p] = [doc EXCEPT !.code = code]]
                /\ pc' = [pc EXCEPT ![p] = "bc_insert"]
                /\ loc' = [loc EXCEPT ![p] = [EmptyLoc EXCEPT !.i = i]]
           ELSE IF i < GuardedSamples
           THEN /\ req' = [req EXCEPT ![p] = doc]
                /\ pc' = [pc EXCEPT ![p] = "bc_sample"]
                /\ loc' = [loc EXCEPT ![p] = [EmptyLoc EXCEPT !.i = i + 1]]
           ELSE /\ req' = [req EXCEPT ![p] = [doc EXCEPT !.code = fallback]]
                /\ pc' = [pc EXCEPT ![p] = "bc_insert"]
                /\ loc' = [loc EXCEPT ![p] = [EmptyLoc EXCEPT !.i = GuardedSamples + 1]]
  /\ silent
  /\ UNCHANGED <<now, turfSlots, bookings, sweep, orders, callbacks, mails, faults>>

\* The insert of the document with the code the hook kept.
Hook_Insert(p) ==
  /\ pc[p] = "bc_insert"
  /\ LET s == req[p].slots[1]
         w == getDay(s.date)
     IN  bookings' = Append(bookings,
                            NewBooking(s, SlotDefs(w)[findSlot(w, s.startTime, s.endTime)].price,
                                       Null, "cash", "offline", req[p].code))
  /\ answer(p, req[p], "Booking.create", 201, "created", Len(bookings) + 1)
  /\ UNCHANGED <<now, turfSlots, sweep, orders, callbacks, mails, faults>>

NextCode == \E p \in Procs : Hook_Sample(p) \/ Hook_Insert(p)

SpecCode == Init /\ [][NextCode]_vars

\* C28: a Booking inserted with a code that one of the guarded samples gave
\* (not the fallback sample) holds a code no stored Booking holds, also when
\* another Booking is being created at the same time.
C28_GuardedCodeIsUnique ==
  [][\A p \in Procs :
       (pc[p] = "bc_insert" /\ pc'[p] = "idle" /\ loc[p].i <= GuardedSamples)
         => bookings'[Len(bookings')].bookingCode \notin codesOf(bookings)]_vars

(***************************************************************************)
(* The sweep running every five minutes for as long as the server runs.    *)
(***************************************************************************)
\* Cancellation, the sweep and the clock, up to the end of the second slot.
NextSweepLate ==
  \/ sweep.pc = "idle" /\ CancelBooking_Start(1)
  \/ sweep.pc = "idle" /\ CancelBooking_Save(1)
  \/ sweep.pc = "idle" /\ CancelBooking_FindTurf(1)
  \/ sweep.pc = "idle" /\ CancelBooking_SaveTurf(1)
  \/ pc[1] = "idle" /\ SweepStep
  \/ pc[1] = "idle" /\ sweep.pc = "idle" /\ Tick(LateInstants)

\* The timer keeps firing and a sweep under way goes on; a request under
\* way is served to its response.  No write is rejected.
SpecSweepLive ==
  /\ InitLife
  /\ [][NextSweepLate]_vars
  /\ WF_vars(pc[1] = "idle" /\ SweepStep)
  /\ WF_vars(pc[1] # "idle" /\ NextSweepLate)

\* The ids of the candidates a sweep still holds.
queued(sw) == {sw.queue[i].id : i \in 1..Len(sw.queue)}

C30_CaptureOfAnyIssuedOrderMarksPaid ==
  [][(/\ resp'.op = "webhook"
      /\ resp'.callback.op \in {"payment.captured", "order.paid"}
      /\ resp'.callback.signature = expectedSignature(resp'.callback))
       => bookings'[orders[resp'.callback.order].booking].paymentStatus = "paid"]_vars

====
